---- MODULE Spec2Model ----
(***************************************************************************)
(* Advent of Code helpers of the bot (advent_of_code/_helpers.py): the     *)
(* cached leaderboard refresh (fetch_leaderboard and the sequential        *)
(* per-board fetch with the fallback session), the aggregation of the      *)
(* boards into the leaderboard table, and the join-code assigner           *)
(* (get_public_join_code), run by concurrent coroutines over three Redis   *)
(* caches.  Every action is the code between two awaits of one coroutine.  *)
(***************************************************************************)
EXTENDS FiniteSets, Integers, Sequences, TLC

None == "None"

\* ---------------------------------------------------------------- bounds
\* utcnow() is read as one of the instants 1..MaxTime.
MaxTime == 1
\* The combined data handed to the aggregator holds at most MaxMembers members.
MaxMembers == 3

\* ------------------------------------------------- configuration, constants
\* The capacity a board is compared with (lines 354 and 373).
FullBoard == 200

\* AdventOfCode.leaderboards.values(), in the order of the configuration.
leaderboards == <<"staff", "red", "blue">>
Boards == {leaderboards[i] : i \in 1..Len(leaderboards)}
staff_leaderboard_id == "staff"
fallback_session == "fallback"
\* AdventOfCodeLeaderboard.join_code, one code per board.
join_code == ("staff" :> "code-staff") @@ ("red" :> "code-red") @@ ("blue" :> "code-blue")
\* AdventOfCodeLeaderboard._session, one cookie per board.
own_session == ("staff" :> "session-staff") @@ ("red" :> "session-red") @@ ("blue" :> "session-blue")

\* The coroutines: the handler of a member's join command, which calls
\* get_public_join_code, and the handler of the leaderboard commands, which
\* calls fetch_leaderboard itself.
JoinCallers == {"member"}
FetchCallers == {"command"}
\* A second join command, which runs beside the first one between two
\* refreshes (BetweenRefreshes below), for any of the users of AllUsers.
SecondJoinCallers == {"member2"}
Callers == JoinCallers \cup FetchCallers \cup SecondJoinCallers
Users == {"u1"}
AllUsers == Users \cup {"u2"}
\* raw_data["members"] of a board's response, a dictionary keyed by the
\* members' ids, kept as <<first id, last id>>.  The staff board has two
\* members; a public board is full, or has a few members ("red" as many as
\* the staff board, "blue" one more).  Some members are on two boards.
BoardMembers ==
    ("staff" :> {<<1, 2>>})
        @@ ("red" :> {<<2, 3>>, <<2, FullBoard + 1>>})
        @@ ("blue" :> {<<3, 5>>, <<3, FullBoard + 2>>})
Times == 1..MaxTime
PasteUrls == {"https://paste.pythondiscord.com/raw/k"}

REQUIRED_CACHE_KEYS ==
    {"full_leaderboard", "top_leaderboard", "full_leaderboard_url",
     "leaderboard_fetched_at", "number_of_participants", "daily_stats"}

\* ------------------------------------------------------------------ state
VARIABLES
    leaderboard_cache,     \* _caches.leaderboard_cache: field -> value
    cache_ttl,             \* TRUE when the leaderboard key carries an expiry
    leaderboard_counts,    \* _caches.leaderboard_counts: its items, in the hash's order
    assigned_leaderboard,  \* _caches.assigned_leaderboard: user -> board
    use_fallback_session,  \* leaderboard.use_fallback_session, per board
    transaction_lock,      \* leaderboard_cache's transaction lock: its holder, then
                           \* those that wait for it in the order they came
    proc,                  \* per coroutine: position and local variables
    stage,                     \* how far lines 269-282 have come on the data below
    raw_leaderboard_data,      \* the members of the combined boards, in dict order
    parsed_leaderboard_data,   \* _parse_raw_leaderboard_data(raw_leaderboard_data)
    formatted_leaderboard,     \* _format_leaderboard(leaderboard), a text
    top_leaderboard,           \* _get_top_leaderboard(formatted_leaderboard), a text
    local_zone                 \* the time zone of the process (fromtimestamp reads it)

cache_vars == <<leaderboard_cache, cache_ttl, leaderboard_counts, assigned_leaderboard,
                use_fallback_session, transaction_lock, proc>>

aggregate_vars == <<stage, raw_leaderboard_data, parsed_leaderboard_data,
                    formatted_leaderboard, top_leaderboard, local_zone>>

vars == <<cache_vars, aggregate_vars>>

\* ------------------------------------------------------- dictionary helpers
EmptyDict == <<>>

DictSet(d, k, v) == [x \in (DOMAIN d) \cup {k} |-> IF x = k THEN v ELSE d[x]]

DictGet(d, k, default) == IF k \in DOMAIN d THEN d[k] ELSE default

\* dict.update: the entries of e are added to d, replacing equal keys.
DictUpdate(d, e) ==
    [x \in (DOMAIN d) \cup (DOMAIN e) |-> IF x \in DOMAIN e THEN e[x] ELSE d[x]]

\* A dictionary whose order is read (the counts hash, whose items min() goes
\* through) is the sequence of its items <<key, value>>.
Keys(items) == {items[i][1] : i \in 1..Len(items)}

\* set: a key that is there keeps its place, a new key goes to the end.
ItemSet(items, k, v) ==
    IF k \in Keys(items)
    THEN [i \in 1..Len(items) |-> IF items[i][1] = k THEN <<k, v>> ELSE items[i]]
    ELSE Append(items, <<k, v>>)

\* dict.get(k, default)
ItemGet(items, k, default) ==
    IF k \in Keys(items)
    THEN items[CHOOSE i \in 1..Len(items) : items[i][1] = k][2]
    ELSE default

\* dict.pop(k, None): the other items keep their order.
ItemPop(items, k) == SelectSeq(items, LAMBDA item : item[1] # k)

RECURSIVE SumOver(_, _)
SumOver(f, S) ==
    IF S = {} THEN 0
    ELSE LET x == CHOOSE y \in S : TRUE IN f[x] + SumOver(f, S \ {x})

\* s[lo] \o sep \o s[lo + 1] \o ... \o s[hi], for lo <= hi.
RECURSIVE Between(_, _, _, _)
Between(s, sep, lo, hi) ==
    IF lo = hi THEN s[lo]
    ELSE LET mid == (lo + hi) \div 2
         IN  Between(s, sep, lo, mid) \o sep \o Between(s, sep, mid + 1, hi)

\* ------------------------------------------------ aggregation and formatting
\* A text is the sequence of its characters; some runs of characters that
\* hold no line break are written as one element, and a character outside
\* ASCII is written by its escape.
NewLine == "\n"

\* The elements that stand for one character: the escapes, the star sign
\* (U+2B50) among them.
Escaped ==
    {"\\x0b", "\\x1c", "\\x1d", "\\x1e", "\\x85", "\\u2028", "\\u2029", "\\u2b50"}

\* len(text): the number of its characters.
RECURSIVE Characters(_)
Characters(text) ==
    IF text = <<>> THEN 0
    ELSE (IF Head(text) \in Escaped THEN 1 ELSE Len(Head(text)))
             + Characters(Tail(text))

\* str(n): the digits of the number, behind a minus sign if it is below
\* zero.
RECURSIVE str(_)
str(n) ==
    IF n < 0 THEN <<"-">> \o str(0 - n)
    ELSE IF n < 10 THEN <<ToString(n)>>
    ELSE str(n \div 10) \o <<ToString(n % 10)>>

\* The characters at which str.splitlines() breaks a text: \n, \r, \f and
\* (written by their escapes) \x0b, \x1c, \x1d, \x1e, \x85, \u2028, \u2029.
LineBoundaries ==
    {NewLine, "\r", "\f", "\\x0b", "\\x1c", "\\x1d", "\\x1e", "\\x85",
     "\\u2028", "\\u2029"}

\* The widths of the columns in AOC_TABLE_TEMPLATE: {rank: >4},
\* {name:25.25} (width and precision), {score: >5}.
RankWidth == 4
NameWidth == 25
ScoreWidth == 5

\* The runs of 1 to 25 blanks.
Blanks ==
    <<" ", "  ", "   ", "    ", "     ", "      ", "       ", "        ",
      "         ", "          ", "           ", "            ",
      "             ", "              ", "               ",
      "                ", "                 ", "                  ",
      "                   ", "                    ", "                     ",
      "                      ", "                       ",
      "                        ", "                         ">>

\* n blanks, as a text.
Fill(n) == IF n <= 0 THEN <<>> ELSE <<Blanks[n]>>

\* member["name"]: absent (the member is shown as anonymous), or a name,
\* here one with a carriage return in it.
Names == {<<>>, <<"L", "\r", "z">>}

\* The zones the process may run in: one without daylight saving, and one
\* whose clocks go back an hour between the two instants of the data.
Zones == {"UTC", "America/New_York"}

\* AdventOfCode.ignored_days: the days (as the JSON's keys) that do not count.
ignored_days == {"2"}

\* member["completion_day_level"]: day -> star -> {"get_star_ts": ...}.  Day
\* "1" counts, day "2" is ignored.  The instants are 2020-11-01 05:30 and
\* 06:00 UTC, half an hour before and at the end of daylight saving in
\* New York.
CompletionDayLevels ==
    { EmptyDict,
      ("1" :> ("1" :> [get_star_ts |-> 1604208600])),
      ("1" :> ("1" :> [get_star_ts |-> 1604210400])),
      ("2" :> ("1" :> [get_star_ts |-> 1604208600])),
      (("1" :> (("1" :> [get_star_ts |-> 1604208600]) @@ ("2" :> [get_star_ts |-> 1604210400])))
          @@ ("2" :> ("1" :> [get_star_ts |-> 1604208600]))) }

\* The values of the combined data of the boards, in the order of the
\* dictionary; the member at place i has the id i.
RawInputs ==
    UNION { { [i \in 1..k |-> [id |-> i, name |-> f[i].name,
                               completion_day_level |-> f[i].completion_day_level]] :
              f \in [1..k -> [name : Names, completion_day_level : CompletionDayLevels]] } :
            k \in 0..MaxMembers }

\* AdventOfCode.leaderboard_displayed_members
leaderboard_displayed_members == MaxMembers - 1

\* member["name"] if member["name"] else f"Anonymous #{member['id']}"
MemberName(member) ==
    IF member.name # <<>> THEN member.name
    ELSE <<"A", "n", "o", "n", "y", "m", "o", "u", "s", " ", "#">> \o str(member.id)

\* The member has completed the star of the day.
HasStar(member, day, star) ==
    /\ day \in DOMAIN member.completion_day_level
    /\ star \in DOMAIN member.completion_day_level[day]

\* leaderboard[member_id][f"star_{star}"] after the member's days and stars.
StarCount(member, star) ==
    Cardinality({day \in DOMAIN member.completion_day_level : HasStar(member, day, star)})

\* The day (counted from 1970-01-01) on which the day `doy` of the year
\* starts that begins with March of the civil year `year`.
days_of(year, doy) ==
    (year \div 400) * 146097 + (year % 400) * 365
        + ((year % 400) \div 4) - ((year % 400) \div 100) + doy - 719468

\* The day (counted from 1970-01-01) of a date of the civil calendar.
days_from_civil(y, m, d) ==
    days_of(IF m <= 2 THEN y - 1 ELSE y,
            ((153 * ((m + 9) % 12) + 2) \div 5) + d - 1)

\* The civil year of the day `doe` of the 400-year era `era`, `yoe` being
\* its year of the era counted from March: January and February belong to
\* the next civil year.
year_from(era, doe, yoe) ==
    yoe + era * 400
        + (IF 5 * (doe - (365 * yoe + (yoe \div 4) - (yoe \div 100))) + 2 >= 1530
           THEN 1 ELSE 0)

year_in_era(era, doe) ==
    year_from(era, doe,
              (doe - (doe \div 1460) + (doe \div 36524) - (doe \div 146096)) \div 365)

\* The year of the civil calendar the day lies in.
year_of(days) == year_in_era((days + 719468) \div 146097, (days + 719468) % 146097)

\* The day of the week, Sunday being 0.
weekday(days) == (days + 4) % 7

\* The first Sunday from the day on, and the last Sunday up to the day.
sunday_from(day) == day + ((7 - weekday(day)) % 7)

sunday_until(day) == day - weekday(day)

\* The first Sunday of the month, and the last Sunday of a month that has
\* `last` days.
first_sunday(y, m) == sunday_from(days_from_civil(y, m, 1))

last_sunday(y, m, last) == sunday_until(days_from_civil(y, m, last))

\* The days on which daylight saving starts and ends in New York in the
\* year y >= 1970, as the time zone database has them: from 2007 the
\* second Sunday of March and the first Sunday of November; from 1987 the
\* first Sunday of April and the last Sunday of October; before that the
\* last Sunday of April (6 January in 1974, 23 February in 1975) and the
\* last Sunday of October.
dst_start_day(y) ==
    IF y >= 2007 THEN first_sunday(y, 3) + 7
    ELSE IF y >= 1987 THEN first_sunday(y, 4)
    ELSE IF y = 1974 THEN days_from_civil(1974, 1, 6)
    ELSE IF y = 1975 THEN days_from_civil(1975, 2, 23)
    ELSE last_sunday(y, 4, 30)

dst_end_day(y) ==
    IF y >= 2007 THEN first_sunday(y, 11) ELSE last_sunday(y, 10, 31)

\* In New York the clocks go forward at 2:00 standard time (7:00 UTC) of
\* the day `start` and back at 2:00 daylight time (6:00 UTC) of the day
\* `end`.
InDaylightSaving(day, second, start, end) ==
    /\ \/ day > start
       \/ day = start /\ second >= 7 * 3600
    /\ ~ \/ day > end
         \/ day = end /\ second >= 6 * 3600

\* The offset of the zone from UTC at the instant ts >= 0, in seconds.
UtcOffset(zone, ts) ==
    IF zone = "America/New_York"
    THEN IF InDaylightSaving(ts \div 86400, ts % 86400,
                             dst_start_day(year_of(ts \div 86400)),
                             dst_end_day(year_of(ts \div 86400)))
         THEN 0 - 14400 ELSE 0 - 18000
    ELSE 0

\* datetime.datetime.fromtimestamp(int(...)) in a process whose zone is tz:
\* the naive local time of the instant, as the seconds of its wall clock;
\* two of them are compared by the wall clock alone.
fromtimestamp(ts, tz) == ts + UtcOffset(tz, ts)

\* star_results[(day, star)]: a StarResult for each member that has the
\* star, in the order of the members.
StarResults(raw, day, star, tz) ==
    LET has(member) == HasStar(member, day, star)
        done == SelectSeq(raw, has)
    IN  [i \in 1..Len(done) |->
            [member_id |-> done[i].id,
             completion_time |->
                 fromtimestamp(done[i].completion_day_level[day][star].get_star_ts, tz)]]

\* The keys of star_results: every (day, star) of the data.
StarKeys(raw) ==
    UNION { UNION { { <<day, star>> : star \in DOMAIN raw[i].completion_day_level[day] } :
                    day \in DOMAIN raw[i].completion_day_level } :
            i \in 1..Len(raw) }

\* One step of the stable sort: x goes behind every result that is not later.
RECURSIVE InsertByTime(_, _)
InsertByTime(sorted, x) ==
    IF sorted = <<>> THEN <<x>>
    ELSE IF Head(sorted).completion_time <= x.completion_time
         THEN <<Head(sorted)>> \o InsertByTime(Tail(sorted), x)
         ELSE <<x>> \o sorted

\* sorted(results, key=operator.attrgetter('completion_time'))
RECURSIVE sorted_by_completion_time(_)
sorted_by_completion_time(results) ==
    IF results = <<>> THEN <<>>
    ELSE InsertByTime(sorted_by_completion_time(SubSeq(results, 1, Len(results) - 1)),
                      results[Len(results)])

\* Faulty variant: the ranks are counted from one.
Award_one_based(max_score, rank) == max_score - rank - 1

\* max_score - rank (line 132)
Award(max_score, rank) == max_score - rank

\* Faulty variant: no day is ignored.
IsIgnored_never(day) == FALSE

\* day in AdventOfCode.ignored_days
IsIgnored(day) == day \in ignored_days

\* max_score = len(leaderboard): one entry for each id of the data.
MaxScore(raw) == Cardinality({raw[i].id : i \in 1..Len(raw)})

\* What the loop of lines 131-132 adds for one star: member and points, in
\* the sorted order.
StarAwards(raw, day, star, tz) ==
    LET sorted_result == sorted_by_completion_time(StarResults(raw, day, star, tz))
    IN  [i \in 1..Len(sorted_result) |->
            [member_id |-> sorted_result[i].member_id,
             points |-> Award(MaxScore(raw), i - 1)]]

\* The points of one star that go to the member.
PointsOf(awards, member_id) ==
    LET mine == {i \in 1..Len(awards) : awards[i].member_id = member_id}
    IN  SumOver([i \in mine |-> awards[i].points], mine)

\* leaderboard[member_id]["score"] after lines 124-132.
Score(raw, member_id, tz) ==
    LET counted == {key \in StarKeys(raw) : ~IsIgnored(key[1])}
    IN  SumOver([key \in counted |->
                    PointsOf(StarAwards(raw, key[1], key[2], tz), member_id)],
                counted)

\* The items of `leaderboard` before they are sorted (lines 103-132): one
\* entry for each id, at the place where the id came first; the name and
\* the stars are those of the last member with the id (line 106 starts the
\* entry anew), the score is what all results under the id have earned.
Entries(raw, tz) ==
    LET firsts == SelectSeq([i \in 1..Len(raw) |-> i],
                            LAMBDA i : \A j \in 1..(i - 1) : raw[j].id # raw[i].id)
        last(id) == CHOOSE i \in 1..Len(raw) :
                        raw[i].id = id /\ \A j \in (i + 1)..Len(raw) : raw[j].id # id
    IN  [k \in 1..Len(firsts) |->
            LET member == raw[last(raw[firsts[k]].id)]
            IN  [member_id |-> member.id, name |-> MemberName(member),
                 score |-> Score(raw, member.id, tz),
                 star_1 |-> StarCount(member, "1"), star_2 |-> StarCount(member, "2")]]

\* Faulty variant: the stars are left out of the sorting value.
leaderboard_sorting_function_score_only(result) == <<result.score, 0>>

\* leaderboard_sorting_function: (score, star_2 + star_1)
leaderboard_sorting_function(result) == <<result.score, result.star_2 + result.star_1>>

\* The order of two sorting values (tuples of two integers).
KeyLess(a, b) == a[1] < b[1] \/ (a[1] = b[1] /\ a[2] < b[2])

\* The sorting values of a set, from the highest down.
RECURSIVE Descending(_)
Descending(keys) ==
    IF keys = {} THEN <<>>
    ELSE LET highest == CHOOSE k \in keys : \A l \in keys : ~KeyLess(k, l)
         IN  <<highest>> \o Descending(keys \ {highest})

\* sorted(leaderboard.items(), key=leaderboard_sorting_function, reverse=True):
\* the entries by descending sorting value; the sort is stable, entries of
\* one sorting value stay in the order they had.
sorted_leaderboard(entries) ==
    LET keys == Descending({leaderboard_sorting_function(entries[i]) :
                               i \in 1..Len(entries)})
        alike(k) == SelectSeq(entries,
                              LAMBDA e : leaderboard_sorting_function(e) = keys[k])
    IN  IF keys = <<>> THEN <<>>
        ELSE Between([k \in 1..Len(keys) |-> alike(k)], <<>>, 1, Len(keys))

\* daily_stats: for the days 1..25, how many first and second stars.
DailyStats(raw, tz) ==
    [day \in {ToString(d) : d \in 1..25} |->
        [star_one |-> Len(StarResults(raw, day, "1", tz)),
         star_two |-> Len(StarResults(raw, day, "2", tz))]]

\* _parse_raw_leaderboard_data, in a process whose zone is tz
parse_raw_leaderboard_data(raw, tz) ==
    [daily_stats |-> DailyStats(raw, tz),
     leaderboard |-> sorted_leaderboard(Entries(raw, tz))]

\* "\n".join(lines)
Join(lines) ==
    IF lines = <<>> THEN <<>> ELSE Between(lines, <<NewLine>>, 1, Len(lines))

\* The place i of the text starts a line boundary (the \n of \r\n does not:
\* \r\n is one boundary).
StartsBoundary(text, i) ==
    /\ text[i] \in LineBoundaries
    /\ ~(text[i] = NewLine /\ i > 1 /\ text[i - 1] = "\r")

\* The last place of the boundary that starts at place i.
BoundaryEnd(text, i) ==
    IF text[i] = "\r" /\ i < Len(text) /\ text[i + 1] = NewLine THEN i + 1 ELSE i

\* str.splitlines(): the text cut at its line boundaries (\r\n is one
\* boundary), the boundaries dropped, no line for a boundary at the end.
splitlines(text) ==
    LET starts == SelectSeq([i \in 1..Len(text) |-> i],
                            LAMBDA i : StartsBoundary(text, i))
        from(k) == IF k = 1 THEN 1 ELSE BoundaryEnd(text, starts[k - 1]) + 1
        rest == from(Len(starts) + 1) <= Len(text)
    IN  [k \in 1..(Len(starts) + (IF rest THEN 1 ELSE 0)) |->
            SubSeq(text, from(k),
                   IF k <= Len(starts) THEN starts[k] - 1 ELSE Len(text))]

\* {name:25.25}: cut to the width, filled up with blanks.
NameField(name) ==
    IF Len(name) >= NameWidth THEN SubSeq(name, 1, NameWidth)
    ELSE name \o Fill(NameWidth - Len(name))

\* {n: >width}: the number behind the blanks that fill the width.
RightAligned(n, width) == Fill(width - Len(str(n))) \o str(n)

\* AOC_TABLE_TEMPLATE.format(rank="", name="Name", score="Score",
\* stars=the two groups of star signs) (line 27).
HeaderLine ==
    Fill(RankWidth) \o <<" | ">> \o NameField(<<"N", "a", "m", "e">>)
        \o <<" | ", "Score", " | ", "\\u2b50", ", ", "\\u2b50", "\\u2b50">>

\* HEADER (line 28): the line, a line break, and len(line) + 2 dashes.
HEADER ==
    HeaderLine \o <<NewLine>> \o [i \in 1..(Characters(HeaderLine) + 2) |-> "-"]

HEADER_LINES == Len(splitlines(HEADER))

TOP_LEADERBOARD_LINES == HEADER_LINES + leaderboard_displayed_members

\* AOC_TABLE_TEMPLATE.format(rank=..., name=..., score=..., stars=...)
TableLine(rank, data) ==
    RightAligned(rank, RankWidth) \o <<" | ">> \o NameField(data.name)
        \o <<" | ">> \o RightAligned(data.score, ScoreWidth)
        \o <<" | ", "(">> \o str(data.star_1) \o <<", ">> \o str(data.star_2) \o <<")">>

\* _format_leaderboard
format_leaderboard(leaderboard) ==
    Join(<<HEADER>> \o [rank \in 1..Len(leaderboard) |-> TableLine(rank, leaderboard[rank])])

\* Faulty variant: the table is not cut.
get_top_leaderboard_uncut(full_leaderboard) == full_leaderboard

\* _get_top_leaderboard: "\n".join(full_leaderboard.splitlines()[:TOP_LEADERBOARD_LINES])
get_top_leaderboard(full_leaderboard) ==
    LET lines == splitlines(full_leaderboard)
    IN  Join(SubSeq(lines, 1, IF Len(lines) < TOP_LEADERBOARD_LINES
                              THEN Len(lines) ELSE TOP_LEADERBOARD_LINES))

\* json.dumps(daily_stats): the JSON text of the dictionary, kept as the
\* dictionary under the mark of its encoding.
json_dumps(daily_stats) == <<"json", daily_stats>>

\* --------------------------------------------------------- the coroutines
\* The local name board_participants while no body is bound to it: no kind
\* of body, no members.
Unbound == <<None, <<>>>>

\* A member of a board's JSON: a named member that has no star yet.
Member(id) == [id |-> id, name |-> <<"n">>, completion_day_level |-> EmptyDict]

\* len(board_participants)
NumberOf(members) == members[2] - members[1] + 1

\* raw_data["members"].values(), in the order of the JSON.
Members(members) == [i \in 1..NumberOf(members) |-> Member(members[1] + i - 1)]

\* len(raw_data["members"]) of the responses of a board.
Sizes == [b \in Boards |-> {NumberOf(members) : members \in BoardMembers[b]}]

\* What `await resp.json()` (line 182) and lines 218-220 can end in.  A JSON
\* object whose "members" has a length: the dictionary of the members; a
\* list of [key, member] pairs; a list of numbers; a text; a list of texts
\* of two characters; a dictionary of members without "name"; a dictionary
\* of members with a star "3".  Or: an aiohttp.ClientError while the body is
\* read (a wrong content type is one); a timeout; a body that is not JSON;
\* JSON that is no object (null, a list); an object without "members"; an
\* object whose "members" is null.
BodyOutcomes ==
    {"members", "members_pairs", "members_list", "members_text", "members_texts",
     "members_nameless", "members_third_star",
     "error", "timeout", "not_json", "not_a_dict", "no_members", "members_null"}

\* The kinds of body whose "members" len() can count.
Sized ==
    {"members", "members_pairs", "members_list", "members_text", "members_texts",
     "members_nameless", "members_third_star"}

\* The bodies with "members" of the other kinds that the boards send here,
\* with the first and the last of the ids, or of the places, of the items:
\* "staff" a list of pairs, an empty list and an empty text, "blue" a list
\* of two texts and dictionaries of members that cannot be read.
OddBodies ==
    ("staff" :> {<<"members_pairs", <<1, 2>>>>, <<"members_list", <<1, 0>>>>,
                 <<"members_text", <<1, 0>>>>})
        @@ ("red" :> {})
        @@ ("blue" :> {<<"members_texts", <<1, 2>>>>, <<"members_nameless", <<3, 5>>>>,
                       <<"members_third_star", <<3, 5>>>>})

\* The bodies a board can send: the kind, and the members if there are any
\* (the first and the last of their ids, or of their places).  Every board
\* can send its dictionaries, a list of two numbers, a text of two
\* characters, and the bodies that have no "members" to count.
Bodies(b) ==
    {<<"members", members>> : members \in BoardMembers[b]}
        \cup OddBodies[b]
        \cup {<<kind, <<1, 2>>>> : kind \in {"members_list", "members_text"}}
        \cup {<<kind, <<>>>> : kind \in BodyOutcomes \ Sized}

\* len(board_participants), of the body that line 218 took them from.
Length(board_participants) == NumberOf(board_participants[2])

\* participants.update(board_participants) raises when an item cannot be
\* taken for a pair: a number is no sequence (TypeError), a character of a
\* text is a sequence of length 1 (ValueError).  Where there is no item
\* there is nothing to raise; a pair and a text of two characters are taken.
UpdateRaises(board_participants) ==
    /\ board_participants[1] \in {"members_list", "members_text"}
    /\ Length(board_participants) > 0

UpdateException(board_participants) ==
    IF board_participants[1] = "members_list" THEN "TypeError" ELSE "ValueError"

\* What the values are that the update puts into the merged dictionary: a
\* member as the site sends it ("member"); the second character of a text
\* ("text"); a member that line 104 or line 112 cannot read ("malformed").
\* Where there is no item, nothing is put.
Form(board_participants) ==
    IF Length(board_participants) = 0 THEN "member"
    ELSE CASE board_participants[1] \in {"members", "members_pairs"} -> "member"
           [] board_participants[1] = "members_texts" -> "text"
           [] board_participants[1] \in {"members_nameless", "members_third_star"}
                  -> "malformed"

\* participants.update(board_participants), the merged dictionary being
\* kept as what each board has put into it, in the order they were merged:
\* the form of the values and the first and last of the keys.
Merge(participants, board_participants) ==
    Append(participants, <<Form(board_participants), board_participants[2]>>)

\* The keys of the texts are their first characters, those of the members
\* their ids.
KeyClass(form) == IF form = "text" THEN "text" ELSE "id"

\* The entry holds the key.
Holds(entry, key) ==
    /\ KeyClass(entry[1]) = key[1]
    /\ entry[2][1] <= key[2]
    /\ key[2] <= entry[2][2]

\* The value of the key in the merged dictionary is the one that was put
\* last: the form of it.
ValueForm(participants, key) ==
    participants[CHOOSE k \in 1..Len(participants) :
                     /\ Holds(participants[k], key)
                     /\ \A j \in (k + 1)..Len(participants) :
                            ~Holds(participants[j], key)][1]

\* The keys that the k-th entry was the first to put and whose value
\* _parse_raw_leaderboard_data cannot read.
Unreadable(participants, k) ==
    {i \in participants[k][2][1]..participants[k][2][2] :
        /\ \A j \in 1..(k - 1) :
               ~Holds(participants[j], <<KeyClass(participants[k][1]), i>>)
        /\ ValueForm(participants, <<KeyClass(participants[k][1]), i>>) # "member"}

\* The exception of the first value, in the order of the dictionary, that
\* the loop of line 103 cannot read: member["name"] of a text is a
\* TypeError; member["name"] of a member without a name (line 104) and
\* leaderboard[member_id]["star_3"] (line 112) are KeyErrors.
ValueException(form) == IF form = "text" THEN "TypeError" ELSE "KeyError"

\* What _parse_raw_leaderboard_data (line 272) raises on the merged data,
\* or None: a key keeps the place where it came first.
ParseException(participants) ==
    LET entries == {k \in 1..Len(participants) : Unreadable(participants, k) # {}}
    IN  IF entries = {} THEN None
        ELSE LET k == CHOOSE x \in entries : \A y \in entries : x <= y
                 i == CHOOSE x \in Unreadable(participants, k) :
                          \A y \in Unreadable(participants, k) : x <= y
             IN  ValueException(
                     ValueForm(participants, <<KeyClass(participants[k][1]), i>>))

\* The values of the merged dictionary that holds members only, in its
\* order: a member stands where its id came first.
RawData(participants) ==
    LET earlier(id, k) ==
            \E j \in 1..(k - 1) :
                participants[j][2][1] <= id /\ id <= participants[j][2][2]
        added(k) == SelectSeq(Members(participants[k][2]),
                              LAMBDA member : ~earlier(member.id, k))
    IN  IF participants = <<>> THEN <<>>
        ELSE Between([k \in 1..Len(participants) |-> added(k)], <<>>,
                     1, Len(participants))

\* Lines 272-276, 282 and 286 on the merged boards, in a process whose zone
\* is tz: the number of participants and the three texts of the snapshot.
Aggregate(participants, tz) ==
    LET parsed_data == parse_raw_leaderboard_data(RawData(participants), tz)
        formatted == format_leaderboard(parsed_data.leaderboard)
    IN  [number_of_participants |-> Len(parsed_data.leaderboard),
         full_leaderboard |-> formatted,
         top_leaderboard |-> get_top_leaderboard(formatted),
         daily_stats |-> json_dumps(parsed_data.daily_stats)]

\* What a board can have put into the merged data.
Contributions(b) ==
    {<<Form(body), body[2]>> :
        body \in {x \in Bodies(b) : x[1] \in Sized /\ ~UpdateRaises(x)}}

\* What the boards can have answered to a run that got through all of them
\* and whose data line 272 could read, in the order they were merged.
Refreshes ==
    {answers \in [1..Len(leaderboards) -> UNION {Contributions(b) : b \in Boards}] :
        /\ \A i \in 1..Len(leaderboards) : answers[i] \in Contributions(leaderboards[i])
        /\ ParseException(answers) = None}

\* A run in which "blue" was one member short of full.
CrowdedRefreshes ==
    {<<<<"member", CHOOSE members \in BoardMembers["staff"] : TRUE>>,
       <<"member", <<2, FullBoard + 1>>>>, <<"member", <<3, FullBoard + 1>>>>>>}

\* Aggregate, worked out once for each of these answers and each zone.
Aggregated ==
    {[tz |-> tz, participants |-> participants,
      aggregate |-> Aggregate(participants, tz)] :
        tz \in Zones, participants \in Refreshes \cup CrowdedRefreshes}

\* Aggregate(participants, tz), looked up where it was worked out before.
AggregateOf(participants, tz) ==
    IF \E entry \in Aggregated : entry.tz = tz /\ entry.participants = participants
    THEN (CHOOSE entry \in Aggregated :
             entry.tz = tz /\ entry.participants = participants).aggregate
    ELSE Aggregate(participants, tz)

IdleProc ==
    [pc |-> "idle", op |-> None, invalidate_cache |-> FALSE, forced |-> FALSE,
     author |-> None, board |-> 0, attempt |-> 0, participants |-> <<>>,
     board_participants |-> Unbound, formatted_leaderboard |-> <<>>,
     requests |-> <<>>, exhausted |-> FALSE,
     cached_leaderboard |-> EmptyDict,
     previously_assigned_board |-> None,
     best_board |-> None, result |-> None, raised |-> None,
     arrived_in_flight |-> FALSE, upload_response |-> None]

\* The positions between the read of the cache and the return of
\* fetch_leaderboard, all inside the decorated function body; each is the
\* await the coroutine is parked at.
InTransaction ==
    {"fl_read", "fl_fetch", "fl_body", "fl_store", "fl_upload", "fl_paste",
     "fl_update", "fl_pool", "fl_expire"}

\* AdventOfCodeLeaderboard.session: the board's own cookie, or the fallback
\* cookie once use_fallback_session is set.
session(b) ==
    IF use_fallback_session[b] THEN fallback_session ELSE own_session[b]

\* What entering `async with aiohttp.request("GET", ...)` (line 170) and the
\* checks of lines 173-180 can end in: a 200 from the URL asked for; a
\* silent redirect; a status other than 200; an aiohttp.ClientError of the
\* transport; a timeout, which asyncio raises and which is no ClientError.
Outcomes == {"ok", "redirect", "status", "error", "timeout"}

AllBodies == UNION {Bodies(b) : b \in Boards}

\* The bodies of boards that have members and are far from full, and the
\* bodies without "members" to count.
FewBodies ==
    {body \in AllBodies :
        body[1] \in Sized => 0 < NumberOf(body[2]) /\ NumberOf(body[2]) < FullBoard}

\* str(resp.url) != url: the silent redirect of an invalid session.
IsRedirect(outcome) == outcome = "redirect"

\* except aiohttp.ClientError (line 213): UnexpectedResponseStatus is one.
IsClientError(outcome) == outcome \in {"status", "error"}

\* The exception of a request that lines 204-215 do not catch: the timeout,
\* the decoding error of resp.json(), the KeyError or TypeError of
\* raw_data["members"] (line 218), the TypeError of len(None) (line 219).
Uncaught(outcome) ==
    CASE outcome = "timeout" -> "TimeoutError"
      [] outcome = "not_json" -> "JSONDecodeError"
      [] outcome = "no_members" -> "KeyError"
      [] outcome = "not_a_dict" -> "TypeError"
      [] outcome = "members_null" -> "TypeError"

\* Faulty variant: the cookie is never recognised as the fallback cookie.
FallbackExpired_never(cookie) == FALSE

\* cookies["session"] == AdventOfCode.fallback_session
FallbackExpired(cookie) == cookie = fallback_session

\* Faulty variant: the switch is forgotten when the run is over.
SwitchToFallback_forgotten(flags, b) == flags

\* leaderboard.use_fallback_session = True (line 211)
SwitchToFallback(flags, b) == [flags EXCEPT ![b] = TRUE]

\* for attempt in range(1, 3): there is an attempt after this one.
HasNextAttempt(attempt) == attempt + 1 < 3

\* any(key not in cached_leaderboard for key in REQUIRED_CACHE_KEYS)
CacheIncomplete(cached) == \E key \in REQUIRED_CACHE_KEYS : key \notin DOMAIN cached

\* Faulty variant: invalidate_cache is not looked at.
NeedsRefresh_on_miss_only(invalidate, cached) == CacheIncomplete(cached)

\* Faulty variant: the cache is not consulted.
NeedsRefresh_always(invalidate, cached) == TRUE

\* The condition of line 266 under which the pipeline runs.
NeedsRefresh(invalidate, cached) == invalidate \/ CacheIncomplete(cached)

\* Faulty variant: the function is not decorated, the lock is never waited for.
LockFree_always == TRUE

\* asyncio.Lock.acquire: the lock is taken at once when nobody holds it and
\* nobody waits for it.
LockFree == transaction_lock = <<>>

\* asyncio.Lock.acquire: the caller takes the lock, or queues up behind
\* those that wait for it.
acquire(lock, p) == Append(lock, p)

\* asyncio.Lock.release: the lock goes to the first of those that wait.
release(lock) == Tail(lock)

\* What entering `async with aiohttp.request("POST", ...)` (line 232) can
\* end in: the paste service answers; an aiohttp.ClientError of the
\* transport; a timeout.
PostOutcomes == {"ok", "error", "timeout"}

\* The exception of a POST that did not get its answer; line 232 is not
\* inside the try of lines 233-237.
PostException(outcome) ==
    IF outcome = "timeout" THEN "TimeoutError" ELSE "ClientError"

\* What `await resp.json()` of the paste service (line 234) can end in: an
\* exception (the body is not JSON, the transport fails, the time runs out),
\* JSON that is null or a number (line 239 raises a TypeError), JSON
\* without "key", or JSON with one.
PasteResponses == {"unparsable", "not_a_dict", "no_key", "key"}

\* RAW_PASTE_URL_TEMPLATE.format(key=...), or "" when the upload failed.
UploadResults == {""} \cup PasteUrls

\* The exception of line 239 is not inside the try of lines 233-237.
UploadRaises(response) == response = "not_a_dict"

\* The exception that leaves _upload_leaderboard.
UploadException(response) == "TypeError"

\* _upload_leaderboard for a response that was received (lines 233-243).
upload_leaderboard(response) ==
    IF response = "key" THEN CHOOSE url \in PasteUrls : TRUE ELSE ""

\* datetime.datetime.utcnow().isoformat(): the text of the instant, kept as
\* the instant under the mark of its format.
isoformat(t) == <<"isoformat", t>>

\* The dictionary of lines 280-287 for the merged boards: the table, its
\* top, the URL of the paste, the time of the fetch, the number of entries
\* and the daily statistics.
Snapshot(participants, url, t) ==
    LET aggregate == AggregateOf(participants, local_zone)
    IN  [key \in REQUIRED_CACHE_KEYS |->
            CASE key = "full_leaderboard" -> aggregate.full_leaderboard
              [] key = "top_leaderboard" -> aggregate.top_leaderboard
              [] key = "full_leaderboard_url" -> url
              [] key = "leaderboard_fetched_at" -> isoformat(t)
              [] key = "number_of_participants" -> aggregate.number_of_participants
              [] key = "daily_stats" -> aggregate.daily_stats]

\* Faulty variant: the count is not stored while the boards are being fetched.
StoreCount_skipped(counts, b, n) == counts

\* _caches.leaderboard_counts.set(leaderboard.id, len(board_participants))
StoreCount(counts, b, n) == ItemSet(counts, b, n)

\* The coroutine's locals when fetch_leaderboard is entered.
EnterFetch(pr, invalidate) ==
    [pr EXCEPT !.pc = IF LockFree THEN "fl_read" ELSE "fl_wait",
               !.invalidate_cache = invalidate,
               !.arrived_in_flight = ~LockFree,
               !.board = 0, !.attempt = 0, !.participants = <<>>,
               !.board_participants = Unbound, !.formatted_leaderboard = <<>>,
               !.requests = <<>>, !.cached_leaderboard = EmptyDict,
               !.upload_response = None]

\* The coroutine's locals when fetch_leaderboard returns `snapshot`.
ReturnFetch(pr, snapshot) ==
    [pr EXCEPT !.pc = IF pr.op = "fetch" THEN "done"
                      ELSE IF pr.forced THEN "j_recount" ELSE "j_prev",
               !.cached_leaderboard = IF pr.op = "fetch" THEN snapshot ELSE EmptyDict,
               !.board = 0, !.attempt = 0, !.participants = <<>>,
               !.formatted_leaderboard = <<>>,
               !.requests = <<>>,
               !.upload_response = None,
               !.arrived_in_flight = IF pr.op = "fetch" THEN @ ELSE FALSE]

\* Faulty variant: the failure is swallowed and a snapshot without values
\* is written.
RaiseFailed_swallowed(pr) ==
    [pr EXCEPT !.pc = "fl_update",
               !.cached_leaderboard = [key \in REQUIRED_CACHE_KEYS |-> ""]]

\* raise FetchingLeaderboardFailed: it leaves fetch_leaderboard and its caller.
RaiseFailed(pr) ==
    [pr EXCEPT !.pc = "done", !.raised = "FetchingLeaderboardFailed"]

\* An exception that nothing on the way catches leaves fetch_leaderboard
\* and its caller as it is.
Propagate(pr, exception) ==
    [pr EXCEPT !.pc = "done", !.raised = exception]

\* current_board_counts.pop(AdventOfCode.staff_leaderboard_id, None)
WithoutStaff(counts) == ItemPop(counts, staff_leaderboard_id)

\* Faulty variant: a board without a count has no room.
StillHasRoom_counted(counts, board) ==
    board \in Keys(counts) /\ ItemGet(counts, board, 0) < FullBoard

\* Faulty variant: the previous board is never found to have room.
StillHasRoom_never(counts, board) == FALSE

\* current_board_counts.get(previously_assigned_board, 0) < 200
StillHasRoom(counts, board) == ItemGet(counts, board, 0) < FullBoard

\* current_board_counts.get(best_board, 0) >= 200
BoardFull(counts, board) == ItemGet(counts, board, 0) >= FullBoard

\* Faulty variant: max instead of min.
MinBoard_max(counts) ==
    LET first == CHOOSE i \in 1..Len(counts) :
                     \A j \in 1..Len(counts) :
                         counts[i][2] > counts[j][2]
                             \/ (counts[i][2] = counts[j][2] /\ i <= j)
    IN  counts[first][1]

\* min(current_board_counts.items(), key=operator.itemgetter(1)): the first
\* item, in the dictionary's order, whose count is the lowest.
MinBoard(counts) ==
    LET first == CHOOSE i \in 1..Len(counts) :
                     \A j \in 1..Len(counts) :
                         counts[i][2] < counts[j][2]
                             \/ (counts[i][2] = counts[j][2] /\ i <= j)
    IN  counts[first][1]

\* Lines 370-377 on the counts at hand: no board, or the board to assign.
ChooseBoard(pr, counts) ==
    IF counts = EmptyDict
    THEN [pr EXCEPT !.pc = "done", !.raised = "ValueError"]
    ELSE IF BoardFull(counts, MinBoard(counts))
         THEN [pr EXCEPT !.pc = "done", !.result = None]
         ELSE [pr EXCEPT !.pc = "j_set", !.best_board = MinBoard(counts)]

\* A coroutine that has returned (or raised) ends before any other one runs.
Returning == \E q \in Callers : proc[q].pc = "done"

\* Lines 269-282 are also followed on data sets of their own (RawInputs);
\* the variables of that run are at rest while the coroutines run.
NoAggregate ==
    /\ stage = "off"
    /\ raw_leaderboard_data = <<>>
    /\ parsed_leaderboard_data = [daily_stats |-> <<>>, leaderboard |-> <<>>]
    /\ formatted_leaderboard = <<>>
    /\ top_leaderboard = <<>>
    /\ local_zone = "UTC"

CachesInit ==
    /\ leaderboard_cache = EmptyDict
    /\ cache_ttl = FALSE
    /\ leaderboard_counts = EmptyDict
    /\ assigned_leaderboard = EmptyDict
    /\ use_fallback_session = [b \in Boards |-> FALSE]
    /\ transaction_lock = <<>>
    /\ proc = [p \in Callers |-> IdleProc]

Init == CachesInit /\ NoAggregate

\* A command calls fetch_leaderboard(invalidate_cache) itself.
CallFetch(p, invalidate) ==
    /\ ~Returning
    /\ UNCHANGED aggregate_vars
    /\ proc[p].pc = "idle"
    /\ proc' = [proc EXCEPT ![p] = EnterFetch([@ EXCEPT !.op = "fetch"], invalidate)]
    /\ transaction_lock' = acquire(transaction_lock, p)
    /\ UNCHANGED <<leaderboard_cache, cache_ttl, leaderboard_counts,
                   assigned_leaderboard, use_fallback_session>>

\* The caller that waited longest enters the transaction once the lock has
\* come to it.
Acquire(p) ==
    /\ ~Returning
    /\ UNCHANGED aggregate_vars
    /\ proc[p].pc = "fl_wait"
    /\ Head(transaction_lock) = p
    /\ proc' = [proc EXCEPT ![p].pc = "fl_read"]
    /\ UNCHANGED <<leaderboard_cache, cache_ttl, leaderboard_counts,
                   assigned_leaderboard, use_fallback_session, transaction_lock>>

\* Lines 261-266 and 299: read the cache; return it, or start the pipeline.
ReadCache(p) ==
    /\ ~Returning
    /\ UNCHANGED aggregate_vars
    /\ proc[p].pc = "fl_read"
    /\ IF NeedsRefresh(proc[p].invalidate_cache, leaderboard_cache)
       THEN /\ proc' = [proc EXCEPT ![p].pc = "fl_fetch",
                                    ![p].arrived_in_flight = FALSE,
                                    ![p].board = 1, ![p].attempt = 1]
            /\ UNCHANGED transaction_lock
       ELSE /\ proc' = [proc EXCEPT ![p] =
                            ReturnFetch(@, leaderboard_cache)]
            /\ transaction_lock' = release(transaction_lock)
    /\ UNCHANGED <<leaderboard_cache, cache_ttl, leaderboard_counts,
                   assigned_leaderboard, use_fallback_session>>

\* Lines 195-215 and 170-180: one request of the board at hand, under the
\* cookie the board has now, up to the answer's status line and headers;
\* a 200 from the URL asked for leaves the body to be read.
Respond(p, outcome) ==
    LET pr == proc[p]
        b == leaderboards[pr.board]
        cookie == session(b)
        logged == [pr EXCEPT !.requests = Append(@, <<b, cookie, outcome>>)]
    IN  /\ ~Returning
        /\ UNCHANGED aggregate_vars
        /\ pr.pc = "fl_fetch"
        /\ IF IsRedirect(outcome)
           THEN IF FallbackExpired(cookie)
                THEN /\ proc' = [proc EXCEPT ![p] = RaiseFailed(logged)]
                     /\ transaction_lock' = release(transaction_lock)
                     /\ UNCHANGED use_fallback_session
                ELSE /\ use_fallback_session' = SwitchToFallback(use_fallback_session, b)
                     /\ IF HasNextAttempt(pr.attempt)
                        THEN /\ proc' = [proc EXCEPT ![p] =
                                             [logged EXCEPT !.attempt = @ + 1]]
                             /\ UNCHANGED transaction_lock
                        ELSE /\ proc' = [proc EXCEPT ![p] =
                                             RaiseFailed([logged EXCEPT !.exhausted = TRUE])]
                             /\ transaction_lock' = release(transaction_lock)
           ELSE IF IsClientError(outcome)
                THEN /\ proc' = [proc EXCEPT ![p] = RaiseFailed(logged)]
                     /\ transaction_lock' = release(transaction_lock)
                     /\ UNCHANGED use_fallback_session
                ELSE IF outcome # "ok"
                     THEN /\ proc' = [proc EXCEPT ![p] = Propagate(logged, Uncaught(outcome))]
                          /\ transaction_lock' = release(transaction_lock)
                          /\ UNCHANGED use_fallback_session
                     ELSE /\ proc' = [proc EXCEPT ![p] = [logged EXCEPT !.pc = "fl_body"]]
                          /\ UNCHANGED <<transaction_lock, use_fallback_session>>
        /\ UNCHANGED <<leaderboard_cache, cache_ttl, leaderboard_counts, assigned_leaderboard>>

\* Lines 182 and 213-219: the body of the answer is read and decoded; the
\* members are taken out and counted, up to the await that stores the
\* count.  What a request failed with is noted with the request.
ReadBody(p, body) ==
    LET pr == proc[p]
        kind == body[1]
        logged == [pr EXCEPT !.requests[Len(pr.requests)][3] =
                                 IF kind \in Sized THEN @ ELSE kind]
    IN  /\ ~Returning
        /\ UNCHANGED aggregate_vars
        /\ pr.pc = "fl_body"
        /\ body \in Bodies(leaderboards[pr.board])
        /\ IF kind \in Sized
           THEN /\ proc' = [proc EXCEPT ![p] =
                               [logged EXCEPT !.pc = "fl_store",
                                              !.board_participants = body]]
                /\ UNCHANGED transaction_lock
           ELSE /\ proc' = [proc EXCEPT ![p] =
                               IF IsClientError(kind) THEN RaiseFailed(logged)
                               ELSE Propagate(logged, Uncaught(kind))]
                /\ transaction_lock' = release(transaction_lock)
        /\ UNCHANGED <<leaderboard_cache, cache_ttl, leaderboard_counts,
                       assigned_leaderboard, use_fallback_session>>

\* Lines 219-221 and, after the last board, 272-276: the count of the board
\* is stored; then its members are merged, or the update raises and the
\* exception leaves the run with the count stored; the loop goes on to the
\* next board; after the last one the merged data are parsed (an exception
\* of line 272 leaves the run with all counts stored), the table is
\* formatted and handed to _upload_leaderboard.
Store(p) ==
    LET pr == proc[p]
        b == leaderboards[pr.board]
        merged == Merge(pr.participants, pr.board_participants)
    IN  /\ ~Returning
        /\ UNCHANGED aggregate_vars
        /\ pr.pc = "fl_store"
        /\ leaderboard_counts' =
               StoreCount(leaderboard_counts, b, Length(pr.board_participants))
        /\ IF UpdateRaises(pr.board_participants)
           THEN /\ proc' = [proc EXCEPT ![p] =
                               [Propagate(pr, UpdateException(pr.board_participants))
                                   EXCEPT !.board_participants = Unbound]]
                /\ transaction_lock' = release(transaction_lock)
           ELSE IF pr.board = Len(leaderboards) /\ ParseException(merged) # None
           THEN /\ proc' = [proc EXCEPT ![p] =
                               [Propagate(pr, ParseException(merged))
                                   EXCEPT !.participants = merged,
                                          !.board_participants = Unbound]]
                /\ transaction_lock' = release(transaction_lock)
           ELSE /\ proc' = [proc EXCEPT ![p] =
                      [pr EXCEPT
                         !.participants = merged,
                         !.board_participants = Unbound,
                         !.formatted_leaderboard =
                             IF pr.board < Len(leaderboards) THEN @
                             ELSE AggregateOf(merged, local_zone).full_leaderboard,
                         !.board = IF pr.board < Len(leaderboards) THEN @ + 1 ELSE @,
                         !.attempt = 1,
                         !.requests = IF pr.board < Len(leaderboards) THEN <<>> ELSE @,
                         !.pc = IF pr.board < Len(leaderboards)
                                THEN "fl_fetch" ELSE "fl_upload"]]
                /\ UNCHANGED transaction_lock
        /\ UNCHANGED <<leaderboard_cache, cache_ttl, assigned_leaderboard,
                       use_fallback_session>>

\* Line 232: the POST of the formatted table is answered, or entering it
\* raises.
Upload(p, outcome) ==
    /\ ~Returning
    /\ UNCHANGED aggregate_vars
    /\ proc[p].pc = "fl_upload"
    /\ IF outcome = "ok"
       THEN /\ proc' = [proc EXCEPT ![p].pc = "fl_paste"]
            /\ UNCHANGED transaction_lock
       ELSE /\ proc' = [proc EXCEPT ![p] =
                            Propagate([@ EXCEPT !.upload_response = outcome],
                                      PostException(outcome))]
            /\ transaction_lock' = release(transaction_lock)
    /\ UNCHANGED <<leaderboard_cache, cache_ttl, leaderboard_counts,
                   assigned_leaderboard, use_fallback_session>>

\* Lines 234-243 and 278-287: the answer of the paste service is decoded and
\* turned into the URL, the clock is read, the snapshot is built (the top
\* of the table is cut here), up to the await that writes it.
ReadPaste(p, response, t) ==
    /\ ~Returning
    /\ UNCHANGED aggregate_vars
    /\ proc[p].pc = "fl_paste"
    /\ IF UploadRaises(response)
       THEN /\ proc' = [proc EXCEPT ![p] =
                            Propagate([@ EXCEPT !.upload_response = response],
                                      UploadException(response))]
            /\ transaction_lock' = release(transaction_lock)
       ELSE /\ proc' = [proc EXCEPT ![p].pc = "fl_update",
                                    ![p].upload_response = response,
                                    ![p].cached_leaderboard =
                                        Snapshot(proc[p].participants,
                                                 upload_leaderboard(response), t)]
            /\ UNCHANGED transaction_lock
    /\ UNCHANGED <<leaderboard_cache, cache_ttl, leaderboard_counts,
                   assigned_leaderboard, use_fallback_session>>

\* Line 290: leaderboard_cache.update(cached_leaderboard).
Update(p) ==
    /\ ~Returning
    /\ UNCHANGED aggregate_vars
    /\ proc[p].pc = "fl_update"
    /\ leaderboard_cache' = DictUpdate(leaderboard_cache, proc[p].cached_leaderboard)
    /\ proc' = [proc EXCEPT ![p].pc = "fl_pool", ![p].upload_response = None]
    /\ UNCHANGED <<cache_ttl, leaderboard_counts, assigned_leaderboard,
                   use_fallback_session, transaction_lock>>

\* Line 293: a connection is taken from the pool.
Connect(p) ==
    /\ ~Returning
    /\ UNCHANGED aggregate_vars
    /\ proc[p].pc = "fl_pool"
    /\ proc' = [proc EXCEPT ![p].pc = "fl_expire"]
    /\ UNCHANGED <<leaderboard_cache, cache_ttl, leaderboard_counts,
                   assigned_leaderboard, use_fallback_session, transaction_lock>>

\* Lines 294-299: set the expiry on the key (if it exists) and return.
Expire(p) ==
    /\ ~Returning
    /\ UNCHANGED aggregate_vars
    /\ proc[p].pc = "fl_expire"
    /\ cache_ttl' = (leaderboard_cache # EmptyDict)
    /\ proc' = [proc EXCEPT ![p] = ReturnFetch(@, proc[p].cached_leaderboard)]
    /\ transaction_lock' = release(transaction_lock)
    /\ UNCHANGED <<leaderboard_cache, leaderboard_counts, assigned_leaderboard,
                   use_fallback_session>>

\* A member asks for a join code: get_public_join_code(author) up to its
\* first await, the call of fetch_leaderboard() (line 342).
CallJoin(p, u) ==
    /\ ~Returning
    /\ UNCHANGED aggregate_vars
    /\ proc[p].pc = "idle"
    /\ proc' = [proc EXCEPT ![p] =
                    EnterFetch([@ EXCEPT !.op = "join", !.author = u], FALSE)]
    /\ transaction_lock' = acquire(transaction_lock, p)
    /\ UNCHANGED <<leaderboard_cache, cache_ttl, leaderboard_counts,
                   assigned_leaderboard, use_fallback_session>>

\* Line 343: previously_assigned_board = assigned_leaderboard.get(author.id)
JoinPrevious(p) ==
    /\ ~Returning
    /\ UNCHANGED aggregate_vars
    /\ proc[p].pc = "j_prev"
    /\ proc' = [proc EXCEPT ![p].pc = "j_counts",
                            ![p].previously_assigned_board =
                                DictGet(assigned_leaderboard, proc[p].author, None)]
    /\ UNCHANGED <<leaderboard_cache, cache_ttl, leaderboard_counts,
                   assigned_leaderboard, use_fallback_session, transaction_lock>>

\* Lines 344-375: read the counts, drop the staff board, answer with the
\* previous board if it has room; else force a refresh when no count is
\* left, or choose among the counts read.
JoinCounts(p) ==
    LET pr == proc[p]
        current_board_counts == WithoutStaff(leaderboard_counts)
    IN  /\ ~Returning
        /\ UNCHANGED aggregate_vars
        /\ pr.pc = "j_counts"
        /\ IF /\ pr.previously_assigned_board # None
              /\ StillHasRoom(current_board_counts, pr.previously_assigned_board)
           THEN /\ proc' = [proc EXCEPT ![p].pc = "done",
                               ![p].result = join_code[pr.previously_assigned_board]]
                /\ UNCHANGED transaction_lock
           ELSE IF current_board_counts = EmptyDict
                THEN /\ proc' = [proc EXCEPT ![p] =
                                    EnterFetch([@ EXCEPT !.forced = TRUE], TRUE)]
                     /\ transaction_lock' = acquire(transaction_lock, p)
                ELSE /\ proc' = [proc EXCEPT ![p] = ChooseBoard(@, current_board_counts)]
                     /\ UNCHANGED transaction_lock
        /\ UNCHANGED <<leaderboard_cache, cache_ttl, leaderboard_counts,
                       assigned_leaderboard, use_fallback_session>>

\* Lines 368-375: after the forced refresh the counts are read again, as
\* they are in the cache, and the board is chosen among them.
JoinRecount(p) ==
    /\ ~Returning
    /\ UNCHANGED aggregate_vars
    /\ proc[p].pc = "j_recount"
    /\ proc' = [proc EXCEPT ![p] =
                    ChooseBoard(@, leaderboard_counts)]
    /\ UNCHANGED <<leaderboard_cache, cache_ttl, leaderboard_counts,
                   assigned_leaderboard, use_fallback_session, transaction_lock>>

\* Faulty variant: the assignment takes one of the board's slots.
JoinSet_counting(p) ==
    /\ ~Returning
    /\ UNCHANGED aggregate_vars
    /\ proc[p].pc = "j_set"
    /\ assigned_leaderboard' =
           DictSet(assigned_leaderboard, proc[p].author, proc[p].best_board)
    /\ leaderboard_counts' =
           ItemSet(leaderboard_counts, proc[p].best_board,
                   ItemGet(leaderboard_counts, proc[p].best_board, 0) + 1)
    /\ proc' = [proc EXCEPT ![p].pc = "done",
                            ![p].result = join_code[proc[p].best_board]]
    /\ UNCHANGED <<leaderboard_cache, cache_ttl,
                   use_fallback_session, transaction_lock>>

\* Lines 378-381: store the assignment, return the board's join code.
JoinSet(p) ==
    /\ ~Returning
    /\ UNCHANGED aggregate_vars
    /\ proc[p].pc = "j_set"
    /\ assigned_leaderboard' =
           DictSet(assigned_leaderboard, proc[p].author, proc[p].best_board)
    /\ proc' = [proc EXCEPT ![p].pc = "done",
                            ![p].result = join_code[proc[p].best_board]]
    /\ UNCHANGED <<leaderboard_cache, cache_ttl, leaderboard_counts,
                   use_fallback_session, transaction_lock>>

\* The caller takes the result (or the exception); the coroutine ends.
Finish(p) ==
    /\ proc[p].pc = "done"
    /\ UNCHANGED aggregate_vars
    /\ proc' = [proc EXCEPT ![p] = IdleProc]
    /\ UNCHANGED <<leaderboard_cache, cache_ttl, leaderboard_counts,
                   assigned_leaderboard, use_fallback_session, transaction_lock>>

\* Redis drops the leaderboard key when its time-to-live runs out.
CacheExpires ==
    /\ ~Returning
    /\ UNCHANGED aggregate_vars
    /\ cache_ttl
    /\ leaderboard_cache' = EmptyDict
    /\ cache_ttl' = FALSE
    /\ UNCHANGED <<leaderboard_counts, assigned_leaderboard, use_fallback_session,
                   transaction_lock, proc>>

\* The counts are found missing from Redis (the case of lines 365-366):
\* the hash is lost at any time, also between two writes of a refresh.
CountsLost ==
    /\ ~Returning
    /\ UNCHANGED aggregate_vars
    /\ leaderboard_counts # EmptyDict
    /\ leaderboard_counts' = EmptyDict
    /\ UNCHANGED <<leaderboard_cache, cache_ttl, assigned_leaderboard,
                   use_fallback_session, transaction_lock, proc>>

\* The member's join command and a leaderboard command side by side, the
\* boards far from full.
Next ==
    \/ \E p \in JoinCallers, u \in Users : CallJoin(p, u)
    \/ \E p \in Callers : JoinPrevious(p)
    \/ \E p \in Callers : JoinCounts(p)
    \/ \E p \in Callers : JoinRecount(p)
    \/ \E p \in Callers : JoinSet(p)
    \/ CountsLost
    \/ \E p \in FetchCallers, invalidate \in BOOLEAN : CallFetch(p, invalidate)
    \/ \E p \in Callers : Acquire(p)
    \/ \E p \in Callers : ReadCache(p)
    \/ \E p \in Callers, outcome \in Outcomes : Respond(p, outcome)
    \/ \E p \in Callers, body \in FewBodies : ReadBody(p, body)
    \/ \E p \in Callers : Store(p)
    \/ \E p \in Callers, outcome \in PostOutcomes : Upload(p, outcome)
    \/ \E p \in Callers, response \in PasteResponses, t \in Times : ReadPaste(p, response, t)
    \/ \E p \in Callers : Update(p)
    \/ \E p \in Callers : Connect(p)
    \/ \E p \in Callers : Expire(p)
    \/ \E p \in Callers : Finish(p)
    \/ CacheExpires

Spec == Init /\ [][Next]_vars

\* ------------------------------------------------------- one command at a time
\* The leaderboard command alone, one call after the other, the boards full
\* or not.
RefreshNext ==
    \/ \E p \in FetchCallers, invalidate \in BOOLEAN : CallFetch(p, invalidate)
    \/ \E p \in FetchCallers : ReadCache(p)
    \/ \E p \in FetchCallers, outcome \in Outcomes : Respond(p, outcome)
    \/ \E p \in FetchCallers, body \in AllBodies : ReadBody(p, body)
    \/ \E p \in FetchCallers : Store(p)
    \/ \E p \in FetchCallers, outcome \in PostOutcomes : Upload(p, outcome)
    \/ \E p \in FetchCallers, response \in PasteResponses, t \in Times :
           ReadPaste(p, response, t)
    \/ \E p \in FetchCallers : Update(p)
    \/ \E p \in FetchCallers : Connect(p)
    \/ \E p \in FetchCallers : Expire(p)
    \/ \E p \in FetchCallers : Finish(p)
    \/ CacheExpires
    \/ CountsLost

Refreshing == Init /\ [][RefreshNext]_vars

\* The member's join command alone, one call after the other, with the
\* refreshes it runs itself, the boards full or not.
JoinAloneNext ==
    \/ \E p \in JoinCallers, u \in Users : CallJoin(p, u)
    \/ \E p \in JoinCallers : ReadCache(p)
    \/ \E p \in JoinCallers, outcome \in Outcomes : Respond(p, outcome)
    \/ \E p \in JoinCallers, body \in AllBodies : ReadBody(p, body)
    \/ \E p \in JoinCallers : Store(p)
    \/ \E p \in JoinCallers, outcome \in PostOutcomes : Upload(p, outcome)
    \/ \E p \in JoinCallers, response \in PasteResponses, t \in Times :
           ReadPaste(p, response, t)
    \/ \E p \in JoinCallers : Update(p)
    \/ \E p \in JoinCallers : Connect(p)
    \/ \E p \in JoinCallers : Expire(p)
    \/ \E p \in JoinCallers : JoinPrevious(p)
    \/ \E p \in JoinCallers : JoinCounts(p)
    \/ \E p \in JoinCallers : JoinRecount(p)
    \/ \E p \in JoinCallers : JoinSet(p)
    \/ \E p \in JoinCallers : Finish(p)
    \/ CacheExpires
    \/ CountsLost

Joining == Init /\ [][JoinAloneNext]_vars

\* ------------------------------------------------------ between two refreshes
\* The caches after a refresh that succeeded: the snapshot with its expiry,
\* the counts of all boards, nobody assigned yet.
RefreshedInit ==
    /\ NoAggregate
    /\ \E answers \in Refreshes \cup CrowdedRefreshes, url \in UploadResults, t \in Times :
           /\ leaderboard_cache = Snapshot(answers, url, t)
           /\ leaderboard_counts =
                  [i \in 1..Len(leaderboards) |-> <<leaderboards[i], NumberOf(answers[i][2])>>]
    /\ cache_ttl = TRUE
    /\ assigned_leaderboard = EmptyDict
    /\ use_fallback_session = [b \in Boards |-> FALSE]
    /\ transaction_lock = <<>>
    /\ proc = [p \in Callers |-> IdleProc]

\* Join commands of two members, for any users, while the snapshot is in
\* the cache: every fetch_leaderboard() of theirs returns it.
JoinNext ==
    \/ \E p \in JoinCallers \cup SecondJoinCallers, u \in AllUsers : CallJoin(p, u)
    \/ \E p \in Callers : Acquire(p)
    \/ \E p \in Callers : ReadCache(p)
    \/ \E p \in Callers : JoinPrevious(p)
    \/ \E p \in Callers : JoinCounts(p)
    \/ \E p \in Callers : JoinSet(p)
    \/ \E p \in Callers : Finish(p)

BetweenRefreshes == RefreshedInit /\ [][JoinNext]_vars

\* ------------------------------------------------ the aggregation on its own
AggregateInit ==
    /\ CachesInit
    /\ stage = "raw"
    /\ raw_leaderboard_data \in RawInputs
    /\ local_zone \in Zones
    /\ parsed_leaderboard_data = [daily_stats |-> <<>>, leaderboard |-> <<>>]
    /\ formatted_leaderboard = <<>>
    /\ top_leaderboard = <<>>

\* Line 272: parsed_leaderboard_data = _parse_raw_leaderboard_data(raw_leaderboard_data)
Parse ==
    /\ stage = "raw"
    /\ parsed_leaderboard_data' = parse_raw_leaderboard_data(raw_leaderboard_data, local_zone)
    /\ stage' = "parsed"
    /\ UNCHANGED <<raw_leaderboard_data, formatted_leaderboard, top_leaderboard, local_zone>>
    /\ UNCHANGED cache_vars

\* Line 276: formatted_leaderboard = _format_leaderboard(leaderboard)
Format ==
    /\ stage = "parsed"
    /\ formatted_leaderboard' = format_leaderboard(parsed_leaderboard_data.leaderboard)
    /\ stage' = "formatted"
    /\ UNCHANGED <<raw_leaderboard_data, parsed_leaderboard_data, top_leaderboard, local_zone>>
    /\ UNCHANGED cache_vars

\* Line 282: "top_leaderboard": _get_top_leaderboard(formatted_leaderboard)
Top ==
    /\ stage = "formatted"
    /\ top_leaderboard' = get_top_leaderboard(formatted_leaderboard)
    /\ stage' = "top"
    /\ UNCHANGED <<raw_leaderboard_data, parsed_leaderboard_data, formatted_leaderboard,
                   local_zone>>
    /\ UNCHANGED cache_vars

AggregateNext == Parse \/ Format \/ Top

AggregateSpec == AggregateInit /\ [][AggregateNext]_vars

\* ------------------------------------------------------------------ claims
\* The coroutine p takes this step.
Steps(p) == proc'[p] # proc[p]

PublicBoards == Boards \ {staff_leaderboard_id}

\* The boards that have a count in the cache, and the count of one of them.
Counted == Keys(leaderboard_counts)

CountOf(b) == ItemGet(leaderboard_counts, b, 0)

\* C1 (sticky assignment): a call that returns the join code of board b
\* leaves b stored as the member's board, and nothing but a new assignment
\* to the member changes what is stored; when the next call of the member
\* reads a count of b below 200, it returns the same code at once and
\* leaves the stored assignment as it is, whatever the other counts are.
C1_Sticky ==
    /\ [](\A p \in JoinCallers :
             ( proc[p].pc = "done" /\ proc[p].raised = None /\ proc[p].result # None )
             => /\ proc[p].author \in DOMAIN assigned_leaderboard
                /\ proc[p].result = join_code[assigned_leaderboard[proc[p].author]])
    /\ [][\A p \in JoinCallers, b \in Boards :
             /\ ( /\ proc[p].pc = "j_prev"
                  /\ Steps(p)
                  /\ DictGet(assigned_leaderboard, proc[p].author, None) = b )
                => proc'[p].previously_assigned_board = b
             /\ ( /\ proc[p].pc = "j_counts"
                  /\ Steps(p)
                  /\ proc[p].previously_assigned_board = b
                  /\ b \in Counted
                  /\ CountOf(b) < FullBoard )
                => /\ proc'[p].pc = "done"
                   /\ proc'[p].raised = None
                   /\ proc'[p].result = join_code[b]
                   /\ assigned_leaderboard' = assigned_leaderboard
                   /\ assigned_leaderboard[proc[p].author] = b]_vars

\* C1 witness: the second call answers "blue" again although "red" has
\* fewer members than "blue".
C1_Witness ==
    \E p \in JoinCallers :
        /\ proc[p].pc = "done"
        /\ proc[p].previously_assigned_board = "blue"
        /\ assigned_leaderboard[proc[p].author] = "blue"
        /\ proc[p].result = join_code["blue"]
        /\ Counted = Boards
        /\ CountOf("red") < CountOf("blue")
        /\ CountOf("blue") < FullBoard

\* The counts in the cache hold every non-staff board, each at 200 or more.
AllPublicFull ==
    \A b \in PublicBoards :
        b \in Counted /\ CountOf(b) >= FullBoard

\* C2 (no board available): a call that reads counts in which every
\* non-staff board is at 200 or more returns None and writes no assignment.
C2_AllFullReturnsNone ==
    [][\A p \in JoinCallers :
          ( /\ proc[p].pc \in {"j_counts", "j_recount"}
            /\ Steps(p)
            /\ AllPublicFull )
          => /\ proc'[p].pc = "done"
             /\ proc'[p].raised = None
             /\ proc'[p].result = None
             /\ assigned_leaderboard' = assigned_leaderboard]_vars

\* C3 (new assignment): the board chosen for a new assignment has a count
\* below 200 among the counts read and no non-staff board has a smaller
\* one; the assignment is stored in the step that returns the code, and the
\* code is that of the board stored.
C3_NewAssignment ==
    [][\A p \in JoinCallers :
          /\ ( proc[p].pc \in {"j_counts", "j_recount"} /\ proc'[p].pc = "j_set" )
             => LET best == proc'[p].best_board
                IN  /\ best \in Counted
                    /\ CountOf(best) < FullBoard
                    /\ \A c \in PublicBoards \cap Counted : CountOf(c) >= CountOf(best)
          /\ ( proc[p].pc = "j_set" /\ Steps(p) )
             => /\ proc'[p].pc = "done"
                /\ assigned_leaderboard'[proc[p].author] = proc[p].best_board
                /\ proc'[p].result = join_code[proc[p].best_board]
          /\ ( assigned_leaderboard' # assigned_leaderboard )
             => proc[p].pc = "j_set" /\ Steps(p)]_vars

\* C3 witness: "red" being full, the member is moved from "red" to "blue".
C3_Witness ==
    \E p \in JoinCallers :
        /\ proc[p].pc = "done"
        /\ proc[p].previously_assigned_board = "red"
        /\ proc[p].best_board = "blue"
        /\ assigned_leaderboard[proc[p].author] = "blue"
        /\ proc[p].result = join_code["blue"]

\* C4 (staff board): no member is assigned to the staff leaderboard and no
\* call returns the staff leaderboard's join code.
C4_NeverStaff ==
    /\ \A u \in DOMAIN assigned_leaderboard :
           assigned_leaderboard[u] # staff_leaderboard_id
    /\ \A p \in JoinCallers : proc[p].result # join_code[staff_leaderboard_id]

\* C5 (one refresh at a time): at most one coroutine is between the read of
\* the cache and the return of fetch_leaderboard.
C5_OneInTransaction ==
    Cardinality({p \in Callers : proc[p].pc \in InTransaction}) <= 1

\* C5 witness: one caller is fetching the boards while the other one is
\* queued behind it.
C5_Witness ==
    \E p, q \in Callers :
        /\ proc[p].pc = "fl_fetch" /\ proc[p].board = 2
        /\ proc[q].pc = "fl_wait"
        /\ transaction_lock = <<p, q>>

\* C6 as claimed: a caller that arrived while another caller's refresh was in
\* flight never starts the fetch of the boards itself.
C6_WaiterNeverFetches ==
    [][\A p \in Callers :
          ( proc[p].pc = "fl_read" /\ proc[p].arrived_in_flight )
          => proc'[p].pc # "fl_fetch"]_vars

\* C6 as amended: a caller that arrived while a refresh was in flight and
\* enters with invalidate_cache false and the six keys in the cache returns
\* the cached snapshot in that step, with no request and no write; with
\* invalidate_cache true or a key missing it fetches the boards itself.
C6_WaiterReusesSnapshot ==
    [][\A p \in Callers :
          ( proc[p].pc = "fl_read" /\ proc[p].arrived_in_flight /\ Steps(p) )
          => IF ~proc[p].invalidate_cache /\ ~CacheIncomplete(leaderboard_cache)
             THEN /\ proc'[p].pc \notin InTransaction
                  /\ proc'[p].raised = None
                  /\ proc'[p].requests = <<>>
                  /\ proc[p].op = "fetch" => proc'[p].cached_leaderboard = leaderboard_cache
                  /\ leaderboard_cache' = leaderboard_cache
                  /\ cache_ttl' = cache_ttl
                  /\ leaderboard_counts' = leaderboard_counts
                  /\ transaction_lock' = release(transaction_lock)
             ELSE /\ proc'[p].pc = "fl_fetch"
                  /\ transaction_lock' = transaction_lock
                  /\ Head(transaction_lock') = p]_vars

\* C6 witness: the command waited for the member's refresh and returns the
\* snapshot it finds in the cache.
C6_Witness ==
    \E p \in FetchCallers :
        /\ proc[p].pc = "done"
        /\ proc[p].arrived_in_flight
        /\ ~proc[p].invalidate_cache
        /\ proc[p].raised = None
        /\ proc[p].requests = <<>>
        /\ ~CacheIncomplete(proc[p].cached_leaderboard)
        /\ proc[p].cached_leaderboard = leaderboard_cache

\* The requests of the board at hand: <<board, cookie, outcome>>.
RequestsOf(p) == proc[p].requests

\* C7 (fallback once): a redirect under the board's own cookie is the board's
\* first request and is followed by one request under the fallback cookie; a
\* redirect under the fallback cookie ends the run with
\* FetchingLeaderboardFailed; a board is requested at most twice and the
\* loop is never exhausted.
C7_FallbackOnce ==
    \A p \in Callers :
        LET r == RequestsOf(p)
        IN  /\ Len(r) <= 2
            /\ ~proc[p].exhausted
            /\ \A i \in 1..Len(r) :
                   /\ r[i][1] = leaderboards[proc[p].board]
                   /\ r[i][3] = "redirect" =>
                        IF r[i][2] = fallback_session
                        THEN /\ i = Len(r)
                             /\ proc[p].pc = "done"
                             /\ proc[p].raised = "FetchingLeaderboardFailed"
                        ELSE /\ i = 1
                             /\ use_fallback_session[r[i][1]]
                             /\ IF Len(r) = 1
                                THEN proc[p].pc = "fl_fetch" /\ proc[p].attempt = 2
                                ELSE r[2][2] = fallback_session

\* C7 witness: "red" redirects under its own cookie, is asked again under the
\* fallback cookie, redirects again, and the run has failed.
C7_Witness ==
    \E p \in Callers :
        /\ RequestsOf(p) = << <<"red", own_session["red"], "redirect">>,
                              <<"red", fallback_session, "redirect">> >>
        /\ proc[p].raised = "FetchingLeaderboardFailed"

\* C8 as claimed (no retry on errors): a non-200 response or a transport
\* error, a timeout among them, is the last request of the run, which has
\* ended with FetchingLeaderboardFailed at that board.  It fails for the
\* timeout, which is no aiohttp.ClientError: the run ends with the
\* TimeoutError itself.
C8_NoRetryOnError ==
    \A p \in Callers :
        LET r == RequestsOf(p)
        IN  \A i \in 1..Len(r) :
                r[i][3] \in {"status", "error", "timeout"} =>
                    /\ i = Len(r)
                    /\ proc[p].pc = "done"
                    /\ proc[p].raised = "FetchingLeaderboardFailed"
                    /\ leaderboards[proc[p].board] = r[i][1]
                    /\ r[i][2] = session(r[i][1])

\* The run has met a response that fails it.
HasFatal(r) ==
    \E i \in 1..Len(r) :
        \/ r[i][3] \notin {"ok", "redirect"}
        \/ r[i][3] = "redirect" /\ r[i][2] = fallback_session

\* C9 (stale snapshot kept): no step of a coroutine that is fetching the
\* boards (asking a board, reading its body, storing its count), or whose
\* fetch has met a failing response, changes the cached snapshot or its
\* expiry.
C9_StaleSnapshotKept ==
    [][\A p \in Callers :
          ( /\ Steps(p)
            /\ \/ proc[p].pc \in {"fl_fetch", "fl_body", "fl_store"}
               \/ proc[p].pc = "fl_read" /\ proc'[p].pc = "fl_fetch"
               \/ HasFatal(proc[p].requests)
               \/ HasFatal(proc'[p].requests) )
          => /\ leaderboard_cache' = leaderboard_cache
             /\ cache_ttl' = cache_ttl]_vars

\* C9 witness: a forced refresh has failed at the last board while a
\* complete snapshot with an expiry is in the cache.
C9_Witness ==
    \E p \in Callers :
        /\ proc[p].raised = "FetchingLeaderboardFailed"
        /\ proc[p].invalidate_cache
        /\ proc[p].board = Len(leaderboards)
        /\ ~CacheIncomplete(leaderboard_cache)
        /\ cache_ttl

\* The counts of the boards whose members the run has merged.
FetchedCounts(participants) ==
    [b \in {leaderboards[i] : i \in 1..Len(participants)} |->
        NumberOf(participants[CHOOSE i \in 1..Len(participants) : leaderboards[i] = b][2])]

\* C10 as claimed: after a failed run no count in the counts cache is a
\* value that this run wrote.
C10_NothingRetained ==
    \A p \in Callers :
        proc[p].raised = "FetchingLeaderboardFailed" =>
            \A b \in DOMAIN FetchedCounts(proc[p].participants) :
                ~( b \in Counted /\ CountOf(b) = FetchedCounts(proc[p].participants)[b] )

\* C10 as amended: each board's count is written as the board answers, on
\* top of the counts that are there.  The step in which the run fails at
\* board k while it requests the board or reads its body drops nothing (the
\* snapshot, its expiry and the counts are left as they are, the boards
\* before k being those the run has merged).  The step in which the run
\* fails at board k after it has counted the board's members leaves the
\* snapshot and its expiry as they are and still writes board k's count:
\* either the members cannot be merged and nothing of board k is merged, or
\* board k is the last one, the members of every board are merged and the
\* combined data cannot be parsed.  Nothing but these writes and the loss
\* of the whole hash changes the counts.
C10_CountsKept ==
    [][/\ \A p \in Callers :
            /\ ( proc[p].pc \in {"fl_fetch", "fl_body"} /\ proc'[p].raised # None )
               => /\ leaderboard_cache' = leaderboard_cache
                  /\ cache_ttl' = cache_ttl
                  /\ leaderboard_counts' = leaderboard_counts
                  /\ DOMAIN FetchedCounts(proc'[p].participants)
                         = {leaderboards[i] : i \in 1..(proc'[p].board - 1)}
            /\ ( proc[p].pc = "fl_store" /\ proc'[p].raised # None )
               => /\ leaderboard_cache' = leaderboard_cache
                  /\ cache_ttl' = cache_ttl
                  /\ leaderboards[proc'[p].board] \in Keys(leaderboard_counts')
                  /\ \/ /\ proc'[p].raised \in {"TypeError", "ValueError"}
                        /\ proc'[p].participants = proc[p].participants
                        /\ DOMAIN FetchedCounts(proc'[p].participants)
                               = {leaderboards[i] : i \in 1..(proc'[p].board - 1)}
                     \/ /\ proc'[p].raised \in {"TypeError", "KeyError"}
                        /\ proc'[p].board = Len(leaderboards)
                        /\ DOMAIN FetchedCounts(proc'[p].participants) = Boards
            /\ ( proc[p].pc = "fl_store" /\ Steps(p) )
               => LET b == leaderboards[proc[p].board]
                  IN  /\ Keys(leaderboard_counts') = Counted \cup {b}
                      /\ ItemGet(leaderboard_counts', b, 0)
                             = Length(proc[p].board_participants)
                      /\ \A c \in Counted \ {b} :
                             ItemGet(leaderboard_counts', c, 0) = CountOf(c)
       /\ ( leaderboard_counts' # leaderboard_counts )
            => \/ leaderboard_counts' = EmptyDict
               \/ \E p \in Callers : proc[p].pc = "fl_store" /\ Steps(p)]_vars

\* C10 witness: the run failed at the third board; the counts of the first
\* two boards are those it fetched, beside the snapshot of an earlier run.
C10_Witness ==
    \E p \in Callers :
        /\ proc[p].raised = "FetchingLeaderboardFailed"
        /\ proc[p].board = 3
        /\ DOMAIN FetchedCounts(proc[p].participants) = {"staff", "red"}
        /\ \A b \in {"staff", "red"} :
               /\ b \in Counted
               /\ CountOf(b) = FetchedCounts(proc[p].participants)[b]
        /\ ~CacheIncomplete(leaderboard_cache)

\* C11 (upload failures are not fatal), as claimed: whenever the upload ends
\* in anything but a key (the POST fails, its answer cannot be read, or the
\* answer has no key), fetch_leaderboard does not raise and goes on with a
\* complete snapshot whose full_leaderboard_url is empty.
C11_UploadFailureNonFatal ==
    [][\A p \in Callers :
          ( /\ proc[p].pc \in {"fl_upload", "fl_paste"}
            /\ Steps(p)
            /\ proc'[p].pc # "fl_paste"
            /\ proc'[p].upload_response # "key" )
          => /\ proc'[p].raised = None
             /\ proc'[p].pc = "fl_update"
             /\ ~CacheIncomplete(proc'[p].cached_leaderboard)
             /\ proc'[p].cached_leaderboard["full_leaderboard_url"] = ""]_vars

\* C17 as claimed: a call for a user with a previous assignment that finds
\* no count in the cache forces a refresh before it answers.
C17_ForcedWithPrevious ==
    [][\A p \in Callers :
          ( /\ proc[p].pc = "j_counts"
            /\ Steps(p)
            /\ proc[p].previously_assigned_board # None
            /\ leaderboard_counts = EmptyDict )
          => /\ proc'[p].forced
             /\ proc'[p].invalidate_cache
             /\ proc'[p].pc \in {"fl_wait", "fl_read"}]_vars

\* C17 as amended: the refresh is forced exactly when the user has no
\* previous assignment and no non-staff count is in the cache; a user with a
\* previous assignment whose count is missing is answered at once with the
\* code of the previous board, with no refresh and no write.
C17_ForcedOnlyWithoutPrevious ==
    [][\A p \in Callers :
          ( proc[p].pc = "j_counts" /\ Steps(p) )
          => LET previous == proc[p].previously_assigned_board
                 missing == Counted \subseteq {staff_leaderboard_id}
             IN  /\ proc'[p].forced <=> (previous = None /\ missing)
                 /\ proc'[p].forced =>
                        /\ proc'[p].invalidate_cache
                        /\ proc'[p].pc \in {"fl_wait", "fl_read"}
                 /\ (previous # None /\ previous \notin Counted) =>
                        /\ proc'[p].pc = "done"
                        /\ proc'[p].raised = None
                        /\ proc'[p].result = join_code[previous]
                        /\ assigned_leaderboard' = assigned_leaderboard]_vars

\* C17 witness: the member was assigned to "blue", the counts are gone, and
\* the call has answered "blue" without a refresh.
C17_Witness ==
    \E p \in JoinCallers :
        /\ proc[p].pc = "done"
        /\ proc[p].previously_assigned_board = "blue"
        /\ leaderboard_counts = EmptyDict
        /\ ~proc[p].forced
        /\ proc[p].result = join_code["blue"]

\* C18 (the pipeline runs iff invalidated or a key is missing): a caller that
\* has the lock starts the fetch of the boards exactly when invalidate_cache
\* is true or one of the six keys is not in the cache; otherwise the same
\* step returns the cached snapshot, no request is made, and no cache, expiry
\* or credential switch is written.  Requests are made by nobody else.
C18_PipelineIffNeeded ==
    [][\A p \in Callers :
          /\ ( proc[p].pc = "fl_read" /\ Steps(p) )
             => LET absent == \E key \in REQUIRED_CACHE_KEYS :
                                  key \notin DOMAIN leaderboard_cache
                IN  IF proc[p].invalidate_cache \/ absent
                    THEN proc'[p].pc = "fl_fetch" /\ proc'[p].board = 1
                    ELSE /\ proc'[p].pc \in {"done", "j_prev", "j_recount"}
                         /\ proc'[p].raised = None
                         /\ proc'[p].requests = <<>>
                         /\ proc[p].op = "fetch" =>
                                proc'[p].cached_leaderboard = leaderboard_cache
                         /\ UNCHANGED <<leaderboard_cache, cache_ttl, leaderboard_counts,
                                        assigned_leaderboard, use_fallback_session>>
          /\ ( proc'[p].pc = "fl_fetch" /\ proc[p].pc \notin {"fl_fetch", "fl_store"} )
             => proc[p].pc = "fl_read"
          /\ ( proc'[p].requests # proc[p].requests /\ proc'[p].requests # <<>> )
             => proc[p].pc \in {"fl_fetch", "fl_body"}]_vars

\* C18 witness: the command called with invalidate_cache false, found nobody
\* in the transaction and a complete cache, and has returned it untouched.
C18_Witness ==
    \E p \in FetchCallers :
        /\ proc[p].pc = "done"
        /\ ~proc[p].invalidate_cache
        /\ ~proc[p].arrived_in_flight
        /\ proc[p].raised = None
        /\ proc[p].requests = <<>>
        /\ \A key \in REQUIRED_CACHE_KEYS : key \in DOMAIN proc[p].cached_leaderboard
        /\ proc[p].cached_leaderboard = leaderboard_cache

\* C19 (the switch is permanent): a redirect under the board's own cookie
\* sets use_fallback_session for the board; no step clears it; from then on
\* the first request of the board in a run uses the fallback cookie, and a
\* redirect on it fails the run with that one request.
C19_PermanentSwitch ==
    [][/\ \A b \in Boards : use_fallback_session[b] => use_fallback_session'[b]
       /\ \A p \in Callers :
            ( proc[p].pc = "fl_fetch" /\ Steps(p) )
            => LET b == leaderboards[proc[p].board]
                   made == proc'[p].requests
               IN  /\ ( proc[p].attempt = 1 /\ made # <<>> /\ use_fallback_session[b] )
                       => /\ made[1][2] = fallback_session
                          /\ made[1][3] = "redirect" =>
                                /\ Len(made) = 1
                                /\ proc'[p].pc = "done"
                                /\ proc'[p].raised = "FetchingLeaderboardFailed"
                   /\ ( made # <<>> /\ made[Len(made)][3] = "redirect"
                        /\ made[Len(made)][2] # fallback_session )
                       => use_fallback_session'[b]]_vars

\* C19 witness: in a later run "red", switched before, is asked once, under
\* the fallback cookie, and its redirect has failed the run.
C19_Witness ==
    \E p \in Callers :
        /\ RequestsOf(p) = << <<"red", fallback_session, "redirect">> >>
        /\ proc[p].raised = "FetchingLeaderboardFailed"
        /\ use_fallback_session["red"]

\* The place of the member at place i of the data among those who have the
\* star, in ascending order of the timestamps (equal ones in the order of the
\* data), counted from zero.
PlaceInStar(raw, i, day, star) ==
    LET ts(j) == raw[j].completion_day_level[day][star].get_star_ts
    IN  Cardinality({j \in 1..Len(raw) :
                        /\ j # i
                        /\ HasStar(raw[j], day, star)
                        /\ (ts(j) < ts(i) \/ (ts(j) = ts(i) /\ j < i))})

\* The stars of the member at place i on the days that count.
CountedStars(raw, i) ==
    { key \in StarKeys(raw) :
          key[1] \notin ignored_days /\ HasStar(raw[i], key[1], key[2]) }

\* C12 as claimed (rank awards): every member of the data has one entry, and
\* its score is the sum, over its stars on the days that count, of N - r,
\* where r is its zero-based place in the star's ascending order of the
\* completion timestamps and N the number of members of the data.  It fails
\* where the clocks of the zone go back between two completions: the code
\* orders the naive local times, and the later completion comes first.
C12_RankAwards ==
    stage \in {"parsed", "formatted", "top"} =>
        LET raw == raw_leaderboard_data
            leaderboard == parsed_leaderboard_data.leaderboard
        IN  /\ Len(leaderboard) = Len(raw)
            /\ \A i \in 1..Len(raw) :
                   \E k \in 1..Len(leaderboard) :
                       /\ leaderboard[k].member_id = raw[i].id
                       /\ leaderboard[k].score =
                              SumOver([key \in CountedStars(raw, i) |->
                                          Len(raw) - PlaceInStar(raw, i, key[1], key[2])],
                                      CountedStars(raw, i))

\* The points awarded for one star, summed.
AwardedFor(raw, day, star) ==
    LET awards == StarAwards(raw, day, star, local_zone)
    IN  SumOver([i \in 1..Len(awards) |-> awards[i].points], 1..Len(awards))

\* No two members have the star at the same timestamp.
NoTies(raw, day, star) ==
    LET results == StarResults(raw, day, star, local_zone)
    IN  \A i, j \in 1..Len(results) :
            i # j => results[i].completion_time # results[j].completion_time

\* C13 as claimed: for a star of a day that counts, without ties, the points
\* awarded sum to k*(k-1)/2, k being the number of members that have it.
C13_SumTriangular ==
    stage \in {"parsed", "formatted", "top"} =>
        \A key \in StarKeys(raw_leaderboard_data) :
            LET k == Len(StarResults(raw_leaderboard_data, key[1], key[2], local_zone))
            IN  ( ~IsIgnored(key[1]) /\ NoTies(raw_leaderboard_data, key[1], key[2]) )
                => AwardedFor(raw_leaderboard_data, key[1], key[2]) = (k * (k - 1)) \div 2

\* C13 as amended: for a star of a day that counts, with or without ties and
\* in whatever order the completions are ranked, the points awarded sum to
\* k*N - k*(k-1)/2, with k the number of members that have the star and N
\* the number of members of the data; the scores of the leaderboard add up
\* to the sum of this over the stars.
C13_SumOfAwards ==
    stage \in {"parsed", "formatted", "top"} =>
        LET raw == raw_leaderboard_data
            leaderboard == parsed_leaderboard_data.leaderboard
            counted == {key \in StarKeys(raw) : key[1] \notin ignored_days}
            due(key) == LET k == Len(StarResults(raw, key[1], key[2], local_zone))
                        IN  k * Len(raw) - (k * (k - 1)) \div 2
        IN  /\ \A key \in counted : AwardedFor(raw, key[1], key[2]) = due(key)
            /\ SumOver([i \in 1..Len(leaderboard) |-> leaderboard[i].score],
                       1..Len(leaderboard))
                   = SumOver([key \in counted |-> due(key)], counted)

\* C13 witness: of three members two have star 1 of day 1, at different
\* times; they get 3 and 2 points.
C13_Witness ==
    /\ stage = "parsed"
    /\ Len(raw_leaderboard_data) = 3
    /\ Len(StarResults(raw_leaderboard_data, "1", "1", local_zone)) = 2
    /\ NoTies(raw_leaderboard_data, "1", "1")
    /\ StarKeys(raw_leaderboard_data) = {<<"1", "1">>}
    /\ parsed_leaderboard_data.leaderboard[1].score = 3
    /\ parsed_leaderboard_data.leaderboard[2].score = 2
    /\ parsed_leaderboard_data.leaderboard[3].score = 0

\* The data without the completions of the ignored days.
WithoutIgnoredDays(raw) ==
    [i \in 1..Len(raw) |->
        [raw[i] EXCEPT !.completion_day_level =
            [day \in (DOMAIN @) \ ignored_days |-> @[day]]]]

\* C14 (ignored days): the score of every entry is the score the member has
\* in the data without the completions of the ignored days; a member that
\* has completions on ignored days only has the score 0.
C14_IgnoredDaysAddNothing ==
    stage \in {"parsed", "formatted", "top"} =>
        LET raw == raw_leaderboard_data
            leaderboard == parsed_leaderboard_data.leaderboard
        IN  \A k \in 1..Len(leaderboard) :
                LET i == CHOOSE j \in 1..Len(raw) : raw[j].id = leaderboard[k].member_id
                IN  /\ leaderboard[k].score =
                           Score(WithoutIgnoredDays(raw), leaderboard[k].member_id, local_zone)
                    /\ DOMAIN raw[i].completion_day_level \subseteq ignored_days
                           => leaderboard[k].score = 0

\* C14 witness: one member has both stars of the ignored day and nothing
\* else and the score 0, another member has a score.
C14_Witness ==
    /\ stage = "parsed"
    /\ \E i \in 1..Len(raw_leaderboard_data), k, l \in 1..Len(raw_leaderboard_data) :
           /\ raw_leaderboard_data[i].completion_day_level = ("2" :> ("1" :> [get_star_ts |-> 1604208600]))
           /\ parsed_leaderboard_data.leaderboard[k].member_id = i
           /\ parsed_leaderboard_data.leaderboard[k].score = 0
           /\ parsed_leaderboard_data.leaderboard[k].star_1 = 1
           /\ parsed_leaderboard_data.leaderboard[l].score > 0

\* C15 (order of the leaderboard): of two entries the one listed first has
\* the higher score, or the same score and at least as many stars.
C15_LeaderboardOrder ==
    stage \in {"parsed", "formatted", "top"} =>
        LET leaderboard == parsed_leaderboard_data.leaderboard
            stars(e) == e.star_1 + e.star_2
        IN  \A a, b \in 1..Len(leaderboard) :
                a < b => \/ leaderboard[a].score > leaderboard[b].score
                         \/ /\ leaderboard[a].score = leaderboard[b].score
                            /\ stars(leaderboard[a]) >= stars(leaderboard[b])

\* C15 witness: two members have the score 0; the second of the data has a
\* star (of the ignored day) and is listed before the first, which has none.
C15_Witness ==
    /\ stage = "parsed"
    /\ Len(raw_leaderboard_data) = 2
    /\ parsed_leaderboard_data.leaderboard[1].member_id = 2
    /\ parsed_leaderboard_data.leaderboard[1].score = 0
    /\ parsed_leaderboard_data.leaderboard[1].star_1 = 1
    /\ parsed_leaderboard_data.leaderboard[2].member_id = 1
    /\ parsed_leaderboard_data.leaderboard[2].score = 0
    /\ parsed_leaderboard_data.leaderboard[2].star_1 = 0

\* No name of the leaderboard has a line boundary in its first NameWidth
\* characters.
NoBreakInNames ==
    \A k \in 1..Len(parsed_leaderboard_data.leaderboard) :
        LET field == NameField(parsed_leaderboard_data.leaderboard[k].name)
        IN  \A i \in 1..Len(field) : field[i] \notin LineBoundaries

\* C16 as claimed: the table has 2 + E lines and the top view has exactly
\* 2 + N lines, the first 2 + N of the table, for any number E of entries.
C16_TopHasAllLines ==
    stage = "top" =>
        LET E == Len(parsed_leaderboard_data.leaderboard)
            N == leaderboard_displayed_members
            full == splitlines(formatted_leaderboard)
            top == splitlines(top_leaderboard)
        IN  /\ Len(full) = 2 + E
            /\ Len(top) = 2 + N
            /\ top = SubSeq(full, 1, 2 + N)

\* C16 as amended: the top view is the first 2 + N lines of the table, or
\* the whole table when it has fewer lines; when no name holds a line break
\* the table has 2 + E lines, so that the top view has 2 + min(E, N) lines.
C16_TopIsPrefix ==
    stage = "top" =>
        LET E == Len(parsed_leaderboard_data.leaderboard)
            N == leaderboard_displayed_members
            full == splitlines(formatted_leaderboard)
            top == splitlines(top_leaderboard)
            shown == IF E < N THEN E ELSE N
        IN  /\ Len(top) = IF Len(full) < 2 + N THEN Len(full) ELSE 2 + N
            /\ top = SubSeq(full, 1, Len(top))
            /\ NoBreakInNames => Len(full) = 2 + E /\ Len(top) = 2 + shown

\* C16 witness: more entries than the top view shows, no line break in a
\* name: the table has 2 + E lines and the top view 2 + N of them.
C16_Witness ==
    /\ stage = "top"
    /\ NoBreakInNames
    /\ Len(parsed_leaderboard_data.leaderboard) > leaderboard_displayed_members
    /\ Len(splitlines(formatted_leaderboard)) = 2 + Len(parsed_leaderboard_data.leaderboard)
    /\ Len(splitlines(top_leaderboard)) = 2 + leaderboard_displayed_members
    /\ top_leaderboard # formatted_leaderboard

\* C20 (assigning does not change the counts): between two refreshes no step
\* of a join command changes the counts; all the users assigned are on one
\* board; and a call for a user without a previous assignment returns a
\* code exactly when a non-staff board has a count below 200, however many
\* users were assigned in the meantime.
C20_AssigningKeepsCounts ==
    /\ [][leaderboard_counts' = leaderboard_counts]_vars
    /\ [](\A u, v \in DOMAIN assigned_leaderboard :
              assigned_leaderboard[u] = assigned_leaderboard[v])
    /\ [](\A p \in Callers :
              ( /\ proc[p].pc = "done"
                /\ proc[p].op = "join"
                /\ proc[p].previously_assigned_board = None )
              => ( proc[p].result # None
                   <=> \E b \in PublicBoards : CountOf(b) < FullBoard ))

\* C20 witness: "blue" is one member short of 200 and "red" is full; both
\* users are assigned to "blue", which makes 201.
C20_Witness ==
    /\ CountOf("red") = FullBoard
    /\ CountOf("blue") = FullBoard - 1
    /\ DOMAIN assigned_leaderboard = AllUsers
    /\ \A u \in AllUsers : assigned_leaderboard[u] = "blue"
    /\ CountOf("blue") + Cardinality(DOMAIN assigned_leaderboard) > FullBoard

====
